---- MODULE Spec2Model ----
(***************************************************************************)
(* Entity handles of the nix data model: Source (a tree node whose calls   *)
(* forward to a backend object), Representation and Feature (a link type   *)
(* and a reference to a DataArray by id).                                   *)
(*                                                                         *)
(* A backend Source object is identified with its id, a number: 0 is the   *)
(* root R, 1..MaxNodes are the ids the backend hands out, each once.       *)
(* The C++ exceptions are modelled by their kind: the std::runtime_error   *)
(* thrown by the argument checks of the handles is "InvalidArgument".      *)
(***************************************************************************)
EXTENDS Integers, Sequences, FiniteSets, TLC

\* ------------------------------------------------------------------ bounds
\* ids the backend may hand out for child sources
MaxNodes == 3
\* largest finite max_depth given to findSources
MaxDepth == 2

\* std::numeric_limits<size_t>::max(), the default max_depth: only ever
\* compared with a level, which never exceeds the number of nodes
SizeMax == 2147483647

Root == 0
Ids == 0..MaxNodes
\* the empty ("none") handle
None == -1
Types == {"probe", "electrode"}
\* one name the backend accepts, one it refuses
Names == {"src", ""}
Filters == {"AcceptAll", "RejectAll", "probe", "electrode"}
Depths == (0..MaxDepth) \cup {SizeMax}

\* the handles a caller holds, all of one kind
Slots == {1, 2}
Kinds == {"Source", "Representation", "Feature"}
LinkTypes == {"Tagged", "Untagged", "Indexed"}
\* the backend's Representation (or Feature) objects
AnnObjs == {1, 2}
\* the DataArrays that exist
DataArrays == {1, 2}
\* the ids a caller may pass: of the DataArrays, of one yet to be created,
\* and the empty string
RawIds == {"", "d1", "d2", "dX"}

VARIABLES
    kids,      \* backend: id -> the ordered ids of its child sources
    live,      \* backend: the ids of the sources that exist
    stype,     \* backend: id -> type
    nextId,    \* backend: the next id to hand out
    last,      \* the last call: what was called, with what, and its outcome
    search,    \* the findSources call in progress, step by step
    kind,      \* the entity kind of the handles the caller holds
    hnd,       \* handle -> the backend object it refers to, or None
    built,     \* handle -> the backend object it was built onto, or None
    ann        \* backend: Representation/Feature object -> link type, data id

treeVars == <<kids, live, stype, nextId>>
handleVars == <<kind, hnd, built, ann>>
vars == <<kids, live, stype, nextId, last, search, kind, hnd, built, ann>>

\* ----------------------------------------------------------------- helpers
Range(s) == {s[i] : i \in 1..Len(s)}

RECURSIVE Flatten(_)
Flatten(ss) == IF ss = <<>> THEN <<>> ELSE Head(ss) \o Flatten(Tail(ss))

Remove(s, x) == SelectSeq(s, LAMBDA y : y # x)

\* a call and its outcome: what was thrown, the value returned (by its type),
\* the nodes a predicate was evaluated on, the backend methods called, and
\* the tree the call started from
Call(op, recv, arg) ==
    [op |-> op, recv |-> recv, arg |-> arg, filt |-> "", depth |-> 0,
     thrown |-> "none", bool |-> FALSE, num |-> 0, seq |-> <<>>,
     evald |-> <<>>, calls |-> <<>>, str |-> "", slot |-> 0,
     pre |-> [kids |-> kids, live |-> live, stype |-> stype,
              hnd |-> hnd, ann |-> ann]]

\* ----------------------------------------------------------------- backend
\* ISource::hasSource: a direct child with that id
Backend_hasSource(p, id) == \E i \in 1..Len(kids[p]) : kids[p][i] = id

\* ISource::sourceCount
Backend_sourceCount(p) == Len(kids[p])

\* ISource::getSource(size_t): the child at the 0-based index
Backend_getSourceAt(p, index) == kids[p][index + 1]

\* ISource::getSource(const std::string &): the child, or NotFound
Backend_getSource(p, id) ==
    IF Backend_hasSource(p, id)
    THEN [thrown |-> "none", num |-> id]
    ELSE [thrown |-> "NotFound", num |-> None]

\* the ids of the subtree rooted at id
RECURSIVE Reach(_, _, _)
Reach(K, S, k) ==
    IF k = 0 THEN S
    ELSE Reach(K, S \cup UNION {Range(K[n]) : n \in S}, k - 1)
Subtree(id) == Reach(kids, {id}, MaxNodes + 1)

\* whether the backend accepts the name of a new source
NameOk(name) == name # ""

\* what ISource::createSource returns: the new child, or a backend error
Backend_createSource_ret(p, name, type) ==
    IF NameOk(name)
    THEN [thrown |-> "none", num |-> nextId]
    ELSE [thrown |-> "BackendError", num |-> None]

\* ISource::createSource: a new child with a fresh id, after the others
Backend_createSource(p, name, type) ==
    IF NameOk(name)
    THEN /\ kids' = [kids EXCEPT ![p] = Append(@, nextId)]
         /\ live' = live \cup {nextId}
         /\ stype' = [stype EXCEPT ![nextId] = type]
         /\ nextId' = nextId + 1
    ELSE UNCHANGED treeVars

\* what ISource::deleteSource returns: whether there was such a child
Backend_deleteSource_ret(p, id) == Backend_hasSource(p, id)

\* ISource::deleteSource: removes the child and its whole subtree
Backend_deleteSource(p, id) ==
    IF Backend_hasSource(p, id)
    THEN /\ kids' = [n \in Ids |->
                       IF n \in Subtree(id) THEN <<>>
                       ELSE IF n = p THEN Remove(kids[n], id) ELSE kids[n]]
         /\ live' = live \ Subtree(id)
         /\ stype' = [n \in Ids |-> IF n \in Subtree(id) THEN "" ELSE stype[n]]
         /\ UNCHANGED nextId
    ELSE UNCHANGED treeVars

\* ------------------------------------------------------------ Entity handle
\* Entity::operator==: the same backend object, or both empty
Eq(a, b) == a = b

\* Entity::id of a handle that is not empty: the id of its backend object
IdOf(h) == h

\* ------------------------------------------------------------ Source handle
\* Source::hasSource(const std::string &)
hasSource(p, id) ==
    [Call("hasSource", p, id) EXCEPT
        !.bool = Backend_hasSource(p, id), !.calls = <<"hasSource">>]

\* Source::hasSource(const Source &)
hasSource_src(p, source) ==
    IF Eq(source, None)
    THEN [Call("hasSource_src", p, source) EXCEPT !.thrown = "InvalidArgument"]
    ELSE [Call("hasSource_src", p, source) EXCEPT
             !.bool = Backend_hasSource(p, IdOf(source)),
             !.calls = <<"id", "hasSource">>]

getSource_first(p, id) ==
    IF Backend_sourceCount(p) > 0
    THEN [Call("getSource", p, id) EXCEPT
             !.num = Backend_getSourceAt(p, 0), !.calls = <<"getSource">>]
    ELSE [Call("getSource", p, id) EXCEPT
             !.thrown = "NotFound", !.num = None, !.calls = <<"getSource">>]

\* Source::getSource(const std::string &)
getSource(p, id) ==
    [Call("getSource", p, id) EXCEPT
        !.thrown = Backend_getSource(p, id).thrown,
        !.num = Backend_getSource(p, id).num,
        !.calls = <<"getSource">>]

getSource_idx_first(p, index) == Backend_getSourceAt(p, 0)

getSource_idx_self(p, index) == p

\* Source::getSource(size_t)
getSource_idx(p, index) == Backend_getSourceAt(p, index)

\* Source::sourceCount
sourceCount(p) == Backend_sourceCount(p)

\* util::AcceptAll and the predicates the callers pass
Accepts(filter, n) ==
    CASE filter = "AcceptAll" -> TRUE
      [] filter = "RejectAll" -> FALSE
      [] OTHER -> stype[n] = filter

\* util::getEntities with the getter of Source::sources: the children
\* getSource(0) .. getSource(count - 1) that pass the filter
getEntities(p, count, filter) ==
    SelectSeq([i \in 1..count |-> getSource_idx(p, i - 1)],
              LAMBDA e : Accepts(filter, e))

sources_dropLast(p, filter) == getEntities(p, sourceCount(p) - 1, filter)

\* Source::sources
sources(p, filter) == getEntities(p, sourceCount(p), filter)

\* the nodes findSources evaluates the predicate on, in the order it does
RECURSIVE visited(_, _, _)
visited(cur, level, max_depth) ==
    <<cur>> \o
    (IF level < max_depth
     THEN LET cs == sources(cur, "AcceptAll")
          IN Flatten([i \in 1..Len(cs) |-> visited(cs[i], level + 1, max_depth)])
     ELSE <<>>)

\* Source::findSources
findSources(s, filter, max_depth) ==
    SelectSeq(visited(s, 0, max_depth), LAMBDA n : Accepts(filter, n))

\* Source::createSource
createSource(p, name, type) ==
    /\ Backend_createSource(p, name, type)
    /\ last' = [Call("createSource", p, None) EXCEPT
                   !.thrown = Backend_createSource_ret(p, name, type).thrown,
                   !.num = Backend_createSource_ret(p, name, type).num,
                   !.calls = <<"createSource">>]

deleteSource_hasOnly(p, id) ==
    /\ UNCHANGED treeVars
    /\ last' = [Call("deleteSource", p, id) EXCEPT
                   !.bool = Backend_hasSource(p, id),
                   !.calls = <<"hasSource">>]

deleteSource_alwaysTrue(p, id) ==
    /\ Backend_deleteSource(p, id)
    /\ last' = [Call("deleteSource", p, id) EXCEPT
                   !.bool = TRUE, !.calls = <<"deleteSource">>]

\* Source::deleteSource(const std::string &)
deleteSource(p, id) ==
    /\ Backend_deleteSource(p, id)
    /\ last' = [Call("deleteSource", p, id) EXCEPT
                   !.bool = Backend_deleteSource_ret(p, id),
                   !.calls = <<"deleteSource">>]

deleteSource_src_unchecked(p, source) ==
    IF Eq(source, None)
    THEN /\ UNCHANGED treeVars
         /\ last' = [Call("deleteSource_src", p, source) EXCEPT
                        !.thrown = "NullEntity", !.calls = <<"id">>]
    ELSE /\ Backend_deleteSource(p, IdOf(source))
         /\ last' = [Call("deleteSource_src", p, source) EXCEPT
                        !.bool = Backend_deleteSource_ret(p, IdOf(source)),
                        !.calls = <<"id", "deleteSource">>]

\* Source::deleteSource(const Source &)
deleteSource_src(p, source) ==
    IF Eq(source, None)
    THEN /\ UNCHANGED treeVars
         /\ last' = [Call("deleteSource_src", p, source) EXCEPT
                        !.thrown = "InvalidArgument"]
    ELSE /\ Backend_deleteSource(p, IdOf(source))
         /\ last' = [Call("deleteSource_src", p, source) EXCEPT
                        !.bool = Backend_deleteSource_ret(p, IdOf(source)),
                        !.calls = <<"id", "deleteSource">>]

\* Entity::nullify: the handle lets go of its backend object
nullify(h) == None

Source_assign_none_kept(h) == h

\* Source::operator=(none_t)
Source_assign_none(h) == nullify(h)

\* Source::Source()
Source_default == None

\* Source::Source(const Source &)
Source_copy(other) == other

\* Source::Source(const std::shared_ptr<base::ISource> &) and (... &&)
Source_shared(p_impl) == p_impl

\* ------------------------------------------- Representation, Feature handle
\* Representation::Representation()
Representation_default == None

\* Representation::Representation(const Representation &)
Representation_copy(other) == other

\* Representation::Representation(const std::shared_ptr<...> &)
Representation_shared(p_impl) == p_impl

\* Representation::Representation(std::shared_ptr<...> &&)
Representation_moved(ptr) == ptr

\* DataArray::id
DataId(d) == IF d = 1 THEN "d1" ELSE "d2"

\* IRepresentation::data(): the DataArray the stored id names, if there is one
Backend_data(o) ==
    IF \E d \in DataArrays : DataId(d) = ann[o].data
    THEN [thrown |-> "none",
          num |-> CHOOSE d \in DataArrays : DataId(d) = ann[o].data]
    ELSE [thrown |-> "NotFound", num |-> None]

\* a call through the handle in slot a that finds it empty: Entity::backend
NullEntity(op, a, arg) ==
    [Call(op, None, arg) EXCEPT !.slot = a, !.thrown = "NullEntity"]

linkType_set_dropped(a, type) ==
    IF hnd[a] = None
    THEN /\ last' = NullEntity("linkType_set", a, None)
         /\ UNCHANGED ann
    ELSE /\ UNCHANGED ann
         /\ last' = [Call("linkType_set", hnd[a], None) EXCEPT
                        !.slot = a, !.str = type]

\* Representation::linkType(LinkType)
linkType_set(a, type) ==
    IF hnd[a] = None
    THEN /\ last' = NullEntity("linkType_set", a, None)
         /\ UNCHANGED ann
    ELSE /\ ann' = [ann EXCEPT ![hnd[a]].linkType = type]
         /\ last' = [Call("linkType_set", hnd[a], None) EXCEPT
                        !.slot = a, !.str = type, !.calls = <<"linkType">>]

\* Representation::linkType() const
linkType_get(h) ==
    IF h = None THEN [thrown |-> "NullEntity", str |-> ""]
    ELSE [thrown |-> "none", str |-> ann[h].linkType]

\* Representation::data(const std::string &)
data_set_id(a, data_array_id) ==
    IF hnd[a] = None
    THEN /\ last' = NullEntity("data_set_id", a, None)
         /\ UNCHANGED ann
    ELSE /\ ann' = [ann EXCEPT ![hnd[a]].data = data_array_id]
         /\ last' = [Call("data_set_id", hnd[a], None) EXCEPT
                        !.slot = a, !.str = data_array_id,
                        !.calls = <<"data">>]

\* Representation::data(const DataArray &)
data_set(a, data) ==
    IF Eq(data, None)
    THEN /\ last' = [Call("data_set", hnd[a], data) EXCEPT
                        !.slot = a, !.thrown = "InvalidArgument"]
         /\ UNCHANGED ann
    ELSE IF hnd[a] = None
    THEN /\ last' = NullEntity("data_set", a, data)
         /\ UNCHANGED ann
    ELSE /\ ann' = [ann EXCEPT ![hnd[a]].data = DataId(data)]
         /\ last' = [Call("data_set", hnd[a], data) EXCEPT
                        !.slot = a, !.str = DataId(data),
                        !.calls = <<"data">>]

\* Representation::data() const
data_get(h) ==
    IF h = None THEN [thrown |-> "NullEntity", num |-> None]
    ELSE Backend_data(h)

\* Feature::data(const std::string &)
Feature_data_set_id(a, data_array_id) ==
    IF hnd[a] = None
    THEN /\ last' = NullEntity("Feature_data_set_id", a, None)
         /\ UNCHANGED ann
    ELSE /\ ann' = [ann EXCEPT ![hnd[a]].data = data_array_id]
         /\ last' = [Call("Feature_data_set_id", hnd[a], None) EXCEPT
                        !.slot = a, !.str = data_array_id,
                        !.calls = <<"data">>]

\* Feature::data(const DataArray &)
Feature_data_set(a, data) ==
    IF Eq(data, None)
    THEN /\ last' = [Call("Feature_data_set", hnd[a], data) EXCEPT
                        !.slot = a, !.thrown = "InvalidArgument"]
         /\ UNCHANGED ann
    ELSE IF hnd[a] = None
    THEN /\ last' = NullEntity("Feature_data_set", a, data)
         /\ UNCHANGED ann
    ELSE /\ ann' = [ann EXCEPT ![hnd[a]].data = DataId(data)]
         /\ last' = [Call("Feature_data_set", hnd[a], data) EXCEPT
                        !.slot = a, !.str = DataId(data),
                        !.calls = <<"data">>]

\* no findSources call is in progress
Idle ==
    [pc |-> "idle", recv |-> None, filt |-> "", depth |-> 0,
     todo |-> <<>>, out |-> <<>>, evald |-> <<>>]

\* -------------------------------------------------------------------- Init
\* the backend holds the root source and the annotation objects, each
\* referring to a DataArray; the caller's handles are empty
InitKind(k) ==
    /\ kids = [n \in Ids |-> <<>>]
    /\ live = {Root}
    /\ stype = [n \in Ids |-> IF n = Root THEN "setup" ELSE ""]
    /\ nextId = 1
    /\ search = Idle
    /\ kind = k
    /\ hnd = [a \in Slots |-> None]
    /\ built = [a \in Slots |-> None]
    /\ ann = [o \in AnnObjs |-> [linkType |-> "Tagged", data |-> "d1"]]
    /\ last = [op |-> "init", recv |-> None, arg |-> None, filt |-> "",
               depth |-> 0, thrown |-> "none", bool |-> FALSE, num |-> 0,
               seq |-> <<>>, evald |-> <<>>, calls |-> <<>>, str |-> "",
               slot |-> 0,
               pre |-> [kids |-> kids, live |-> live, stype |-> stype,
                        hnd |-> hnd, ann |-> ann]]

Init == InitKind("Source")

\* the Source handles a caller can hold: to a source created so far, or empty
Handles == (0..(nextId - 1)) \cup {None}

\* ----------------------------------------------------------------- actions
HasSourceId ==
    \E p \in live, id \in Ids :
        /\ last' = hasSource(p, id)
        /\ UNCHANGED <<treeVars, search, handleVars>>

HasSourceSrc ==
    \E p \in live, s \in Handles :
        /\ last' = hasSource_src(p, s)
        /\ UNCHANGED <<treeVars, search, handleVars>>

FindSources ==
    \E p \in live, f \in Filters, d \in Depths :
        /\ last' = [Call("findSources", p, None) EXCEPT
                       !.filt = f, !.depth = d, !.seq = findSources(p, f, d),
                       !.evald = visited(p, 0, d)]
        /\ UNCHANGED <<treeVars, search, handleVars>>

CreateSource ==
    \E p \in live, name \in Names, type \in Types :
        /\ search.pc = "idle"
        /\ nextId <= MaxNodes
        /\ createSource(p, name, type)
        /\ UNCHANGED <<search, handleVars>>

DeleteSourceId ==
    \E p \in live, id \in Ids :
        /\ search.pc = "idle"
        /\ deleteSource(p, id)
        /\ UNCHANGED <<search, handleVars>>

DeleteSourceSrc ==
    \E p \in live, s \in Handles :
        /\ search.pc = "idle"
        /\ deleteSource_src(p, s)
        /\ UNCHANGED <<search, handleVars>>

\* findSources is entered: the receiver is to be visited at level 0
FindStart ==
    \E p \in live, f \in Filters, d \in Depths :
        /\ search.pc = "idle"
        /\ search' = [Idle EXCEPT !.pc = "run", !.recv = p, !.filt = f,
                         !.depth = d,
                         !.todo = <<[node |-> p, level |-> 0]>>]
        /\ last' = [Call("findSources", p, None) EXCEPT
                       !.filt = f, !.depth = d, !.thrown = "pending"]
        /\ UNCHANGED <<treeVars, handleVars>>

\* one node is visited: the predicate is evaluated on it, and its children
\* are to be visited next, before what was left, unless it is at max_depth
FindStep ==
    /\ search.pc = "run" /\ search.todo # <<>>
    /\ LET cur == Head(search.todo).node
           level == Head(search.todo).level
           cs == IF level < search.depth THEN sources(cur, "AcceptAll")
                 ELSE <<>>
       IN search' = [search EXCEPT
                        !.evald = Append(@, cur),
                        !.out = IF Accepts(search.filt, cur)
                                THEN Append(@, cur) ELSE @,
                        !.todo = [i \in 1..Len(cs) |->
                                     [node |-> cs[i], level |-> level + 1]]
                                 \o Tail(@)]
    /\ UNCHANGED <<treeVars, last, handleVars>>

\* findSources returns what it collected
FindReturn ==
    /\ search.pc = "run" /\ search.todo = <<>>
    /\ last' = [last EXCEPT !.thrown = "none", !.seq = search.out,
                            !.evald = search.evald]
    /\ search' = Idle
    /\ UNCHANGED <<treeVars, handleVars>>

\* the calls that change or test the children of a source
NextTree ==
    \/ HasSourceId \/ HasSourceSrc
    \/ CreateSource \/ DeleteSourceId \/ DeleteSourceSrc

SpecTree == Init /\ [][NextTree]_vars

\* the tree search over the trees that createSource and deleteSource build
NextSearch == CreateSource \/ DeleteSourceId \/ FindSources

SpecSearch == Init /\ [][NextSearch]_vars

\* the tree search as the steps it takes; the call, once entered, runs on
NextFind ==
    \/ CreateSource \/ DeleteSourceId
    \/ FindStart \/ FindStep \/ FindReturn

SpecFind ==
    Init /\ [][NextFind]_vars /\ WF_vars(FindStep) /\ WF_vars(FindReturn)

\* ------------------------------------------------- actions through handles
\* the ids a caller gives a source created through a handle
HandleTypes == {"probe"}

SrcDefault ==
    \E a \in Slots :
        /\ kind = "Source"
        /\ hnd' = [hnd EXCEPT ![a] = Source_default]
        /\ built' = [built EXCEPT ![a] = None]
        /\ last' = [Call("default", None, None) EXCEPT !.slot = a]
        /\ UNCHANGED <<treeVars, search, kind, ann>>

SrcCopy ==
    \E a, b \in Slots :
        /\ kind = "Source" /\ a # b
        /\ hnd' = [hnd EXCEPT ![a] = Source_copy(hnd[b])]
        /\ built' = [built EXCEPT ![a] = built[b]]
        /\ last' = [Call("copy", None, b) EXCEPT !.slot = a]
        /\ UNCHANGED <<treeVars, search, kind, ann>>

SrcShared ==
    \E a \in Slots, n \in live :
        /\ kind = "Source"
        /\ hnd' = [hnd EXCEPT ![a] = Source_shared(n)]
        /\ built' = [built EXCEPT ![a] = n]
        /\ last' = [Call("shared", None, n) EXCEPT !.slot = a]
        /\ UNCHANGED <<treeVars, search, kind, ann>>

SrcAssignNone ==
    \E a \in Slots :
        /\ kind = "Source"
        /\ hnd' = [hnd EXCEPT ![a] = Source_assign_none(hnd[a])]
        /\ built' = [built EXCEPT ![a] = None]
        /\ last' = [Call("assign_none", hnd[a], None) EXCEPT !.slot = a]
        /\ UNCHANGED <<treeVars, search, kind, ann>>

SrcCreate ==
    \E a \in Slots, name \in Names, type \in HandleTypes :
        /\ kind = "Source" /\ nextId <= MaxNodes
        /\ hnd[a] \in live \cup {None}
        /\ IF hnd[a] = None
           THEN /\ last' = NullEntity("createSource", a, None)
                /\ UNCHANGED treeVars
           ELSE createSource(hnd[a], name, type)
        /\ UNCHANGED <<search, handleVars>>

SrcDelete ==
    \E a \in Slots, id \in Ids :
        /\ kind = "Source"
        /\ hnd[a] \in live \cup {None}
        /\ IF hnd[a] = None
           THEN /\ last' = NullEntity("deleteSource", a, id)
                /\ UNCHANGED treeVars
           ELSE deleteSource(hnd[a], id)
        /\ UNCHANGED <<search, handleVars>>

SrcCount ==
    \E a \in Slots :
        /\ kind = "Source"
        /\ hnd[a] \in live \cup {None}
        /\ last' = IF hnd[a] = None
                   THEN NullEntity("sourceCount", a, None)
                   ELSE [Call("sourceCount", hnd[a], None) EXCEPT
                            !.slot = a, !.num = sourceCount(hnd[a]),
                            !.calls = <<"sourceCount">>]
        /\ UNCHANGED <<treeVars, search, handleVars>>

RepDefault ==
    \E a \in Slots :
        /\ kind = "Representation"
        /\ hnd' = [hnd EXCEPT ![a] = Representation_default]
        /\ built' = [built EXCEPT ![a] = None]
        /\ last' = [Call("default", None, None) EXCEPT !.slot = a]
        /\ UNCHANGED <<treeVars, search, kind, ann>>

RepCopy ==
    \E a, b \in Slots :
        /\ kind = "Representation" /\ a # b
        /\ hnd' = [hnd EXCEPT ![a] = Representation_copy(hnd[b])]
        /\ built' = [built EXCEPT ![a] = built[b]]
        /\ last' = [Call("copy", None, b) EXCEPT !.slot = a]
        /\ UNCHANGED <<treeVars, search, kind, ann>>

RepShared ==
    \E a \in Slots, o \in AnnObjs :
        /\ kind = "Representation"
        /\ hnd' = [hnd EXCEPT ![a] = Representation_shared(o)]
        /\ built' = [built EXCEPT ![a] = o]
        /\ last' = [Call("shared", None, o) EXCEPT !.slot = a]
        /\ UNCHANGED <<treeVars, search, kind, ann>>

RepMoved ==
    \E a \in Slots, o \in AnnObjs :
        /\ kind = "Representation"
        /\ hnd' = [hnd EXCEPT ![a] = Representation_moved(o)]
        /\ built' = [built EXCEPT ![a] = o]
        /\ last' = [Call("moved", None, o) EXCEPT !.slot = a]
        /\ UNCHANGED <<treeVars, search, kind, ann>>

RepSetLinkType ==
    \E a \in Slots, type \in LinkTypes :
        /\ kind = "Representation"
        /\ linkType_set(a, type)
        /\ UNCHANGED <<treeVars, search, kind, hnd, built>>

RepGetLinkType ==
    \E a \in Slots :
        /\ kind = "Representation"
        /\ last' = [Call("linkType_get", hnd[a], None) EXCEPT
                       !.slot = a,
                       !.thrown = linkType_get(hnd[a]).thrown,
                       !.str = linkType_get(hnd[a]).str]
        /\ UNCHANGED <<treeVars, search, handleVars>>

RepSetDataId ==
    \E a \in Slots, id \in RawIds :
        /\ kind = "Representation"
        /\ data_set_id(a, id)
        /\ UNCHANGED <<treeVars, search, kind, hnd, built>>

RepSetData ==
    \E a \in Slots, d \in DataArrays \cup {None} :
        /\ kind = "Representation"
        /\ data_set(a, d)
        /\ UNCHANGED <<treeVars, search, kind, hnd, built>>

RepGetData ==
    \E a \in Slots :
        /\ kind = "Representation"
        /\ last' = [Call("data_get", hnd[a], None) EXCEPT
                       !.slot = a,
                       !.thrown = data_get(hnd[a]).thrown,
                       !.num = data_get(hnd[a]).num]
        /\ UNCHANGED <<treeVars, search, handleVars>>

FeatShared ==
    \E a \in Slots, o \in AnnObjs \cup {None} :
        /\ kind = "Feature"
        /\ hnd' = [hnd EXCEPT ![a] = o]
        /\ built' = [built EXCEPT ![a] = o]
        /\ last' = [Call("shared", None, o) EXCEPT !.slot = a]
        /\ UNCHANGED <<treeVars, search, kind, ann>>

FeatSetDataId ==
    \E a \in Slots, id \in RawIds :
        /\ kind = "Feature"
        /\ Feature_data_set_id(a, id)
        /\ UNCHANGED <<treeVars, search, kind, hnd, built>>

FeatSetData ==
    \E a \in Slots, d \in DataArrays \cup {None} :
        /\ kind = "Feature"
        /\ Feature_data_set(a, d)
        /\ UNCHANGED <<treeVars, search, kind, hnd, built>>

\* the handles of one kind, and the calls made through them
NextHandle ==
    \/ SrcDefault \/ SrcCopy \/ SrcShared \/ SrcAssignNone
    \/ SrcCreate \/ SrcDelete \/ SrcCount
    \/ RepDefault \/ RepCopy \/ RepShared \/ RepMoved
    \/ RepSetLinkType \/ RepGetLinkType
    \/ RepSetDataId \/ RepSetData \/ RepGetData
    \/ FeatShared \/ FeatSetDataId \/ FeatSetData

InitHandle == \E k \in Kinds : InitKind(k)

SpecHandle == InitHandle /\ [][NextHandle]_vars

\* ------------------------------------------------- the tree, read bottom-up
\* the sources that list n among their children
Parents(n) == {p \in live : n \in Range(kids[p])}

\* the k-th ancestor of n (n itself for k = 0), None when there is none
RECURSIVE Up(_, _)
Up(n, k) ==
    IF k = 0 THEN n
    ELSE LET m == Up(n, k - 1)
         IN IF m = None \/ Parents(m) = {} THEN None
            ELSE CHOOSE q \in Parents(m) : TRUE

IsAncestor(a, b) == \E k \in 1..MaxNodes : Up(b, k) = a

\* the sources at distance at most d below s, s included
Within(s, d) == {n \in live : \E k \in 0..MaxNodes : k <= d /\ Up(n, k) = s}

\* a comes before b in pre-order: a is an ancestor of b, or a lies in an
\* earlier child's subtree than b under their lowest common ancestor
Before(a, b) ==
    \/ IsAncestor(a, b)
    \/ /\ ~IsAncestor(b, a)
       /\ \E l \in live : \E i, j \in 1..Len(kids[l]) :
             /\ i < j
             /\ (kids[l][i] = a \/ IsAncestor(kids[l][i], a))
             /\ (kids[l][j] = b \/ IsAncestor(kids[l][j], b))

NoDup(r) == \A i, j \in 1..Len(r) : i # j => r[i] # r[j]
PreOrdered(r) == \A i, j \in 1..Len(r) : i < j => Before(r[i], r[j])

\* R -> {a (probe) -> {a1 (electrode)}, b (probe)}
Scenario(a, b, a1) ==
    /\ kids[Root] = <<a, b>> /\ kids[a] = <<a1>>
    /\ kids[b] = <<>> /\ kids[a1] = <<>>
    /\ stype[a] = "probe" /\ stype[b] = "probe" /\ stype[a1] = "electrode"

\* ------------------------------------------------------------------ claims
\* C1: findSources(acceptAll, d) on s returns exactly the nodes at distance
\* at most d from s, s included, each once, in pre-order.
C1_FindAllWithinDepth ==
    (last.op = "findSources" /\ last.filt = "AcceptAll") =>
        /\ Range(last.seq) = Within(last.recv, last.depth)
        /\ NoDup(last.seq)
        /\ PreOrdered(last.seq)
        /\ last.seq[1] = last.recv

C1_Witness ==
    /\ last.op = "findSources" /\ last.filt = "AcceptAll" /\ last.depth = 1
    /\ last.recv = Root /\ Len(last.seq) = 3 /\ Cardinality(live) = 4

\* C2: the predicate is evaluated on every node within max_depth of the
\* receiver and on none deeper; a rejected node's children are still
\* visited; the result is the pre-order of the nodes within max_depth that
\* pass, empty for a predicate that rejects all; in the scenario the probes
\* found from R are [A, B] with max_depth 1 and with unbounded depth.
C2_FindFiltered ==
    (last.op = "findSources") =>
        /\ Range(last.evald) = Within(last.recv, last.depth)
        /\ NoDup(last.evald) /\ PreOrdered(last.evald)
        /\ Range(last.seq) =
              {n \in Within(last.recv, last.depth) : Accepts(last.filt, n)}
        /\ NoDup(last.seq) /\ PreOrdered(last.seq)
        /\ (last.filt = "RejectAll" => last.seq = <<>>)
        /\ \A a, b, a1 \in Ids :
              (/\ Scenario(a, b, a1) /\ last.recv = Root
               /\ last.filt = "probe" /\ last.depth \in {1, SizeMax})
              => last.seq = <<a, b>>

C2_Witness ==
    /\ last.op = "findSources" /\ last.recv = Root
    /\ last.filt = "probe" /\ last.depth = SizeMax
    /\ \E a, b, a1 \in Ids : Scenario(a, b, a1)

\* C3: deleteSource(id) on p, id a direct child of p, returns true and
\* removes the child with its subtree: hasSource(id) is false afterwards,
\* sourceCount() is one less, the other children keep their order, and
\* findSources on p reports no node of the removed subtree.
C3_DeleteRemovesSubtree ==
    (last.op = "deleteSource" /\ last.arg \in Range(last.pre.kids[last.recv])) =>
        LET p == last.recv
            id == last.arg
            gone == Reach(last.pre.kids, {id}, MaxNodes + 1)
        IN /\ last.bool = TRUE /\ last.thrown = "none"
           /\ ~hasSource(p, id).bool
           /\ sourceCount(p) = Len(last.pre.kids[p]) - 1
           /\ sources(p, "AcceptAll") = Remove(last.pre.kids[p], id)
           /\ \A f \in Filters, d \in Depths :
                 Range(findSources(p, f, d)) \cap gone = {}
           /\ live = last.pre.live \ gone

\* a child with a child of its own was deleted
C3_Witness ==
    /\ last.op = "deleteSource" /\ last.bool = TRUE
    /\ last.pre.kids[last.arg] # <<>>
    /\ Len(last.pre.kids[last.recv]) = 2

\* C4: deleteSource(id) on p, id not a direct child of p, returns false,
\* raises nothing and leaves the tree unchanged, so that every read gives
\* what it gave before; deleting the same id twice returns true, then false.
C4_DeleteMissing ==
    /\ [](   (last.op = "deleteSource"
              /\ last.arg \notin Range(last.pre.kids[last.recv]))
          => /\ last.bool = FALSE /\ last.thrown = "none"
             /\ kids = last.pre.kids /\ live = last.pre.live
             /\ stype = last.pre.stype
             /\ sourceCount(last.recv) = Len(last.pre.kids[last.recv])
             /\ sources(last.recv, "AcceptAll") = last.pre.kids[last.recv]
             /\ \A id \in Ids : hasSource(last.recv, id).bool
                                  = (id \in Range(last.pre.kids[last.recv])))
    /\ [][(/\ last.op = "deleteSource" /\ last.bool = TRUE
           /\ last'.op = "deleteSource"
           /\ last'.recv = last.recv /\ last'.arg = last.arg)
          => last'.bool = FALSE /\ last'.thrown = "none"]_vars

\* a deeper descendant's id was given, and the tree still holds it
C4_Witness ==
    /\ last.op = "deleteSource" /\ last.bool = FALSE
    /\ last.arg \in live /\ last.arg # last.recv
    /\ IsAncestor(last.recv, last.arg)

\* C5: a successful createSource on p returns c with getSource(c.id()) equal
\* to c, hasSource(c.id()) true, sourceCount() one more, and c after the
\* children p had, which are unchanged with their subtrees.
C5_CreateAppends ==
    (last.op = "createSource" /\ last.thrown = "none") =>
        LET p == last.recv
            c == last.num
        IN /\ c \in Ids \ last.pre.live
           /\ getSource(p, IdOf(c)).thrown = "none"
           /\ Eq(getSource(p, IdOf(c)).num, c)
           /\ hasSource(p, IdOf(c)).bool
           /\ sourceCount(p) = Len(last.pre.kids[p]) + 1
           /\ sources(p, "AcceptAll") = Append(last.pre.kids[p], c)
           /\ \A n \in last.pre.live :
                 /\ n # p => kids[n] = last.pre.kids[n]
                 /\ stype[n] = last.pre.stype[n]
           /\ live = last.pre.live \cup {c}

\* a second child was given to a source that is not the root
C5_Witness ==
    /\ last.op = "createSource" /\ last.thrown = "none"
    /\ Len(kids[last.recv]) = 2 /\ last.recv # Root

\* the tree is the one the last call started from
TreeUntouched ==
    /\ kids = last.pre.kids /\ live = last.pre.live /\ stype = last.pre.stype

\* C7: hasSource(Source) and deleteSource(Source) given the empty Source
\* fail with InvalidArgument, call nothing on the backend and leave the tree
\* unchanged, unlike deleteSource of a missing child, which returns false;
\* given another Source they do what the id overloads do with its id.
C7_NullSourceArgument ==
    /\ (last.op \in {"hasSource_src", "deleteSource_src"} /\ last.arg = None)
       => /\ last.thrown = "InvalidArgument"
          /\ last.calls = <<>>
          /\ TreeUntouched
    /\ (last.op = "deleteSource"
        /\ last.arg \notin Range(last.pre.kids[last.recv]))
       => last.thrown = "none" /\ last.bool = FALSE
    /\ (last.op = "hasSource_src" /\ last.arg # None)
       => /\ last.thrown = "none"
          /\ last.bool = hasSource(last.recv, IdOf(last.arg)).bool
          /\ TreeUntouched
    /\ (last.op = "deleteSource_src" /\ last.arg # None)
       => LET p == last.recv
              id == IdOf(last.arg)
              was == id \in Range(last.pre.kids[p])
              gone == IF was THEN Reach(last.pre.kids, {id}, MaxNodes + 1)
                      ELSE {}
          IN /\ last.thrown = "none"
             /\ last.bool = was
             /\ live = last.pre.live \ gone
             /\ kids[p] = Remove(last.pre.kids[p], id)
             /\ ~hasSource(p, id).bool

C7_Witness ==
    /\ last.op = "deleteSource_src" /\ last.arg = None
    /\ last.thrown = "InvalidArgument" /\ Cardinality(live) > 2

\* one parent for every source but the root, and no source its own ancestor
Acyclic ==
    /\ Parents(Root) = {}
    /\ \A n \in live \ {Root} :
          /\ Cardinality(Parents(n)) = 1
          /\ \A q \in Parents(n) :
                Cardinality({i \in 1..Len(kids[q]) : kids[q][i] = n}) = 1
    /\ \A n \in live :
          /\ Range(kids[n]) \subseteq live
          /\ n \notin Reach(kids, Range(kids[n]), MaxNodes + 1)

\* the search is never deeper than the tree, nor visits more than its nodes
SearchBounded ==
    /\ \A i \in 1..Len(search.todo) :
          search.todo[i].level < Cardinality(live)
    /\ Len(search.evald) + Len(search.todo) <= Cardinality(live)

\* C10: after any createSource and deleteSource calls the sources form a
\* tree: one parent each, no source its own ancestor; so findSources ends
\* for every receiver, predicate and max_depth, the unbounded default
\* included, with no cycle detection, and leaves the tree as it was.
C10_SearchTerminates ==
    /\ []Acyclic
    /\ []SearchBounded
    /\ [][search.pc = "run" => treeVars' = treeVars]_vars
    /\ (search.pc = "run") ~> (search.pc = "idle")

\* an unbounded search got to the end of a chain of three below the root
C10_Witness ==
    /\ search.pc = "run" /\ search.depth = SizeMax /\ search.recv = Root
    /\ search.todo = <<>> /\ Len(search.evald) = 4
    /\ \E n \in live : Up(n, 3) = Root

\* the steps collect what findSources returns
SearchAgrees ==
    (last.op = "findSources" /\ last.thrown = "none") =>
        /\ last.seq = findSources(last.recv, last.filt, last.depth)
        /\ last.evald = visited(last.recv, 0, last.depth)

\* the annotation objects are as the last call found them
AnnUntouched == ann = last.pre.ann

\* data(DataArray) of either kind, given the empty DataArray, fails before
\* the backend is called; given another, it forwards that array's id
DataSetterGuarded ==
    (last.op \in {"data_set", "Feature_data_set"}) =>
        /\ last.arg = None =>
              /\ last.thrown = "InvalidArgument"
              /\ last.calls = <<>>
              /\ AnnUntouched
        /\ (last.arg # None /\ last.recv # None) =>
              /\ last.thrown = "none"
              /\ last.calls = <<"data">>
              /\ last.str = DataId(last.arg)
              /\ ann[last.recv].data = DataId(last.arg)
              /\ \A o \in AnnObjs \ {last.recv} : ann[o] = last.pre.ann[o]

\* a data reference that is set stays set
DataStaysSet ==
    [][\A o \in AnnObjs : ann[o].data # "" => ann'[o].data # ""]_vars

\* C6: data(DataArray) of a Representation, and of a Feature, given the
\* empty DataArray raises InvalidArgument before any backend call and leaves
\* the stored reference as it was; so a data reference, once set, is never
\* null again; given another DataArray the call forwards that array's id.
C6_DataNeverNull == []DataSetterGuarded /\ DataStaysSet

\* the empty DataArray was refused, by a handle that has a backend object
C6_GuardWitness ==
    /\ last.op = "Feature_data_set" /\ last.arg = None
    /\ last.recv # None /\ last.thrown = "InvalidArgument"

\* C8: after any default-constructions, constructions from a backend
\* reference, copy-constructions and assignments of none, two handles are
\* equal iff they were built onto the same backend object or are both empty;
\* a handle assigned none is empty, equals a default-constructed one and no
\* longer its former target, and the other handles are as they were.
C8_EqualityByIdentity ==
    /\ \A a, b \in Slots : Eq(hnd[a], hnd[b]) <=> (built[a] = built[b])
    /\ \A a \in Slots : Eq(hnd[a], None) <=> (built[a] = None)
    /\ (last.op = "assign_none") =>
          /\ Eq(hnd[last.slot], None)
          /\ Eq(hnd[last.slot], Source_default)
          /\ last.recv # None => ~Eq(hnd[last.slot], last.recv)
          /\ \A b \in Slots \ {last.slot} : hnd[b] = last.pre.hnd[b]
    /\ (last.op \in {"shared", "moved"} /\ last.arg # None) =>
          \A b \in Slots : built[b] = last.arg => Eq(hnd[b], hnd[last.slot])
    /\ (last.op = "copy") => Eq(hnd[last.slot], hnd[last.arg])

\* a handle was assigned none while another handle held the same source
C8_Witness ==
    /\ last.op = "assign_none" /\ last.recv # None
    /\ \E b \in Slots : b # last.slot /\ hnd[b] = last.recv

\* the handles built onto the backend object o
Sharing(o) == {b \in Slots : built[b] = o}

\* C9: a change made through one handle (linkType(type), data(id),
\* createSource, deleteSource) is what the next read through every handle
\* sharing its backend object gives (linkType(), data(), sourceCount(),
\* hasSource, sources()), whatever calls were made before.
C9_NoCaching ==
    /\ (last.op = "linkType_set" /\ last.thrown = "none") =>
          \A b \in Sharing(last.recv) :
             linkType_get(hnd[b]) = [thrown |-> "none", str |-> last.str]
    /\ (last.op \in {"data_set_id", "data_set"} /\ last.thrown = "none") =>
          \A b \in Sharing(last.recv) :
             /\ hnd[b] # None
             /\ ann[hnd[b]].data = last.str
             /\ data_get(hnd[b]) =
                   IF \E d \in DataArrays : DataId(d) = last.str
                   THEN [thrown |-> "none",
                         num |-> CHOOSE d \in DataArrays : DataId(d) = last.str]
                   ELSE [thrown |-> "NotFound", num |-> None]
    /\ (kind = "Source" /\ last.op = "createSource" /\ last.thrown = "none") =>
          \A b \in Sharing(last.recv) :
             /\ hnd[b] # None
             /\ sourceCount(hnd[b]) = Len(last.pre.kids[last.recv]) + 1
             /\ hasSource(hnd[b], last.num).bool
             /\ sources(hnd[b], "AcceptAll")
                   = Append(last.pre.kids[last.recv], last.num)
    /\ (kind = "Source" /\ last.op = "deleteSource" /\ last.thrown = "none"
        /\ last.bool) =>
          \A b \in Sharing(last.recv) :
             /\ hnd[b] # None
             /\ sourceCount(hnd[b]) = Len(last.pre.kids[last.recv]) - 1
             /\ ~hasSource(hnd[b], last.arg).bool
             /\ sources(hnd[b], "AcceptAll")
                   = Remove(last.pre.kids[last.recv], last.arg)

\* the link type was changed through one of two handles onto one object
C9_Witness ==
    /\ last.op = "linkType_set" /\ last.thrown = "none"
    /\ last.str # last.pre.ann[last.recv].linkType
    /\ \E b \in Slots : b # last.slot /\ built[b] = last.recv
====
